---- MODULE Spec2Model ----
(***************************************************************************)
(* tabbycat/draw/models.py: Debate and DebateTeam.                         *)
(*                                                                         *)
(* The store (the Django tables the two models query) and one Debate       *)
(* instance and one DebateTeam instance loaded from it.  Every property    *)
(* and method of the two classes is an operator that takes the instance    *)
(* (its attribute dictionary) and yields the instance afterwards, the      *)
(* exception raised (if any) and the value returned; an action applies     *)
(* one of them to the loaded instance and records the outcome in ret.      *)
(***************************************************************************)
EXTENDS Integers, Sequences, FiniteSets, TLC

VARIABLES
    debateteam,        \* store: DebateTeam rows of the debate, by primary key
    ballotsubmission,  \* store: BallotSubmission rows of the debate, by version
    teamscore,         \* store: TeamScore rows (ballot_submission, debate_team, win)
    seen,              \* history provider: what Team.seen() answers now
    allocation,        \* store: the debate's adjudicators, in allocation order
    debate,            \* the loaded Debate instance: its memoized attributes
    dt,                \* the loaded DebateTeam instance: its fields and memoized attributes
    history,           \* the count draw_conflicts bound to `history` on this instance
    drawn,             \* the (aff, neg) pairings the store has held (kept by RedrawTracked)
    ret                \* outcome of the last property read or method call

vars == <<debateteam, ballotsubmission, teamscore, seen, allocation,
          debate, dt, history, drawn, ret>>

----------------------------------------------------------------------------
(* Bounds of the model *)

MaxDebateTeams == 3
MaxBallots == 3
MaxResults == 2
MaxHistory == 5

----------------------------------------------------------------------------
(* Values *)

Teams == {"T1", "T2", "T3"}
Adjudicators == {"J1", "J2"}

POSITION_AFFIRMATIVE == "A"
POSITION_NEGATIVE == "N"
POSITION_UNALLOCATED == "u"
POSITION_CHOICES == {POSITION_AFFIRMATIVE, POSITION_NEGATIVE, POSITION_UNALLOCATED}

Sides == {"aff", "neg"}

\* 'aff' and 'neg' name the two allocated positions.
PositionOf(side) == IF side = "aff" THEN POSITION_AFFIRMATIVE ELSE POSITION_NEGATIVE

PKs == 1..MaxDebateTeams

\* A missing attribute (AttributeError on read) and a present one.
Unset == <<>>
Some(v) == <<v>>

None == "None"
NoExc == "-"
DoesNotExist == "DoesNotExist"
MultipleObjectsReturned == "MultipleObjectsReturned"

NoRow == [team |-> "-", position |-> "-"]

\* QuerySet.get(): the single matching row, DoesNotExist for none,
\* MultipleObjectsReturned for several.
Get(matching) ==
    IF matching = {} THEN [exc |-> DoesNotExist, row |-> 0]
    ELSE IF Cardinality(matching) > 1 THEN [exc |-> MultipleObjectsReturned, row |-> 0]
    ELSE [exc |-> NoExc, row |-> CHOOSE r \in matching : TRUE]

\* debateteam_set.filter(position=position): primary keys of the rows.
DebateTeamsAt(position) ==
    {pk \in PKs : debateteam[pk] # NoRow /\ debateteam[pk].position = position}

----------------------------------------------------------------------------
(* class Debate *)

FreshDebate ==
    [_aff_team |-> Unset, _neg_team |-> Unset, _aff_dt |-> Unset, _neg_dt |-> Unset,
     confirmed_ballot |-> Unset, draw_conflicts |-> Unset,
     adjudicator_conflicts |-> Unset, _adjudicators |-> Unset]

Returns(self, val) == [self |-> self, exc |-> NoExc, val |-> val, cached |-> FALSE]
Memoized(self, val) == [self |-> self, exc |-> NoExc, val |-> val, cached |-> TRUE]
Raises(self, exc) == [self |-> self, exc |-> exc, val |-> None, cached |-> FALSE]

\* Mutant of aff_team: the first of several assignments is taken.
aff_team_first(self) ==
    IF self._aff_team # Unset THEN Memoized(self, self._aff_team[1])
    ELSE LET matching == DebateTeamsAt(POSITION_AFFIRMATIVE) IN
         IF matching = {} THEN Raises(self, DoesNotExist)
         ELSE LET team == debateteam[CHOOSE pk \in matching : TRUE].team IN
              Returns([self EXCEPT !._aff_team = Some(team)], team)

aff_team(self) ==
    IF self._aff_team # Unset THEN Memoized(self, self._aff_team[1])
    ELSE LET got == Get(DebateTeamsAt(POSITION_AFFIRMATIVE)) IN
         IF got.exc # NoExc THEN Raises(self, got.exc)
         ELSE LET team == debateteam[got.row].team IN
              Returns([self EXCEPT !._aff_team = Some(team)], team)

neg_team(self) ==
    IF self._neg_team # Unset THEN Memoized(self, self._neg_team[1])
    ELSE LET got == Get(DebateTeamsAt(POSITION_NEGATIVE)) IN
         IF got.exc # NoExc THEN Raises(self, got.exc)
         ELSE LET team == debateteam[got.row].team IN
              Returns([self EXCEPT !._neg_team = Some(team)], team)

aff_dt(self) ==
    IF self._aff_dt # Unset THEN Memoized(self, self._aff_dt[1])
    ELSE LET got == Get(DebateTeamsAt(POSITION_AFFIRMATIVE)) IN
         IF got.exc # NoExc THEN Raises(self, got.exc)
         ELSE Returns([self EXCEPT !._aff_dt = Some(got.row)], got.row)

neg_dt(self) ==
    IF self._neg_dt # Unset THEN Memoized(self, self._neg_dt[1])
    ELSE LET got == Get(DebateTeamsAt(POSITION_NEGATIVE)) IN
         IF got.exc # NoExc THEN Raises(self, got.exc)
         ELSE Returns([self EXCEPT !._neg_dt = Some(got.row)], got.row)

\* getattr(self, '%s_team' % side)
get_team(self, side) == IF side = "aff" THEN aff_team(self) ELSE neg_team(self)

\* getattr(self, '%s_dt' % side)
get_dt(self, side) == IF side = "aff" THEN aff_dt(self) ELSE neg_dt(self)

get_side(self, team) ==
    LET a == aff_team(self) IN
    IF a.exc # NoExc THEN a
    ELSE IF a.val = team THEN [a EXCEPT !.val = "aff"]
    ELSE LET n == neg_team(a.self) IN
         IF n.exc # NoExc THEN n
         ELSE IF n.val = team THEN [n EXCEPT !.val = "neg", !.cached = a.cached /\ n.cached]
         ELSE [n EXCEPT !.val = None, !.cached = a.cached /\ n.cached]

\* team in (self.aff_team, self.neg_team): both are read before the test.
contains(self, team) ==
    LET a == aff_team(self) IN
    IF a.exc # NoExc THEN a
    ELSE LET n == neg_team(a.self) IN
         IF n.exc # NoExc THEN n
         ELSE [n EXCEPT !.val = IF team \in {a.val, n.val} THEN "True" ELSE "False",
                        !.cached = a.cached /\ n.cached]

NoBallot == 0

\* The versions of the debate's ballot submissions (ballotsubmission_set).
Versions == 1..Len(ballotsubmission)

\* cached_property: ballotsubmission_set.get(confirmed=True), None for
\* ObjectDoesNotExist; MultipleObjectsReturned is not caught.
confirmed_ballot(self) ==
    IF self.confirmed_ballot # Unset THEN Memoized(self, self.confirmed_ballot[1])
    ELSE LET got == Get({v \in Versions : ballotsubmission[v].confirmed}) IN
         IF got.exc = DoesNotExist
         THEN Returns([self EXCEPT !.confirmed_ballot = Some(NoBallot)], NoBallot)
         ELSE IF got.exc # NoExc THEN Raises(self, got.exc)
         ELSE Returns([self EXCEPT !.confirmed_ballot = Some(got.row)], got.row)

\* ballotsubmission_set.exclude(discarded=True).order_by('version')
RECURSIVE OrderByVersion(_)
OrderByVersion(S) ==
    IF S = {} THEN <<>>
    ELSE LET least == CHOOSE v \in S : \A w \in S : v <= w IN
         <<least>> \o OrderByVersion(S \ {least})

\* list.sort()
Sorted(l) == SortSeq(l, LAMBDA a, b : a < b)

\* Mutant of CompareWithLater: the version is recorded under ballotsub1 only.
RECURSIVE CompareWithLaterOneWay(_, _, _, _, _)
CompareWithLaterOneWay(result, ballotsub1, later, k, is_identical) ==
    IF k > Len(later) THEN result
    ELSE LET ballotsub2 == later[k] IN
         CompareWithLaterOneWay(
            IF {ballotsub1, ballotsub2} \in is_identical
            THEN [result EXCEPT ![ballotsub1] = Append(@, ballotsub2)]
            ELSE result,
            ballotsub1, later, k + 1, is_identical)

\* The inner loop of identical_ballotsubs_dict: ballotsub2 runs over
\* later[k..], the ballots of a greater version than ballotsub1.
RECURSIVE CompareWithLater(_, _, _, _, _)
CompareWithLater(result, ballotsub1, later, k, is_identical) ==
    IF k > Len(later) THEN result
    ELSE LET ballotsub2 == later[k] IN
         CompareWithLater(
            IF {ballotsub1, ballotsub2} \in is_identical
            THEN [result EXCEPT ![ballotsub1] = Append(@, ballotsub2),
                                ![ballotsub2] = Append(@, ballotsub1)]
            ELSE result,
            ballotsub1, later, k + 1, is_identical)

\* The outer loop: ballotsub1 runs over ballotsubs[i..].
RECURSIVE CompareEach(_, _, _, _)
CompareEach(result, ballotsubs, i, is_identical) ==
    IF i > Len(ballotsubs) THEN result
    ELSE CompareEach(
            CompareWithLater(result, ballotsubs[i],
                             SelectSeq(ballotsubs, LAMBDA b : b > ballotsubs[i]),
                             1, is_identical),
            ballotsubs, i + 1, is_identical)

\* is_identical: the pairs of versions BallotSubmission.is_identical holds of.
identical_ballotsubs_dict(self, is_identical) ==
    LET ballotsubs == OrderByVersion({v \in Versions : ~ballotsubmission[v].discarded})
        result == [b \in {ballotsubs[i] : i \in 1..Len(ballotsubs)} |-> <<>>]
        compared == CompareEach(result, ballotsubs, 1, is_identical)
    IN  Returns(self, [b \in DOMAIN compared |-> Sorted(compared[b])])

\* Team.institution_id of the teams of the tournament: T1 and T2 are of one
\* institution, T3 of another.
institution_id(team) == IF team = "T3" THEN 2 ELSE 1

\* Adjudicator.conflict_with(team) for the adjudicators of the tournament:
\* with the re-draws, an adjudicator in conflict with neither team, with the
\* affirmative or the negative team alone, and with both.
conflict_with(adj, team) ==
    \/ adj = "J1" /\ team = "T1"
    \/ adj = "J2" /\ team \in {"T1", "T2"}

\* "Teams have met %d times" % (history,)
MetTimes(n) == "Teams have met " \o ToString(n) \o " times"

SameInstitution == "Teams are from the same institution"

\* str(Conflict(adj, team))
Conflict(adj, team) == "Adjudicator " \o adj \o " conflicts with " \o team

\* Mutant of draw_conflicts: two or more meetings are "met twice".
draw_conflicts_twice_or_more(self) ==
    IF self.draw_conflicts # Unset THEN Memoized(self, self.draw_conflicts[1])
    ELSE LET a == aff_team(self) IN
         IF a.exc # NoExc THEN Raises(a.self, a.exc)
         ELSE LET n == neg_team(a.self) IN
              IF n.exc # NoExc THEN Raises(n.self, n.exc)
              ELSE LET met == IF seen = 1 THEN <<"Teams have met once">>
                              ELSE IF seen >= 2 THEN <<"Teams have met twice">>
                              ELSE <<>>
                       d == IF institution_id(a.val) = institution_id(n.val)
                            THEN Append(met, SameInstitution)
                            ELSE met
                   IN  Returns([n.self EXCEPT !.draw_conflicts = Some(d)], d)

\* cached_property.  self.aff_team and self.neg_team are read (and memoized)
\* before Team.seen is called; an exception of either leaves the property
\* unset.
draw_conflicts(self) ==
    IF self.draw_conflicts # Unset THEN Memoized(self, self.draw_conflicts[1])
    ELSE LET a == aff_team(self) IN
         IF a.exc # NoExc THEN Raises(a.self, a.exc)
         ELSE LET n == neg_team(a.self) IN
              IF n.exc # NoExc THEN Raises(n.self, n.exc)
              ELSE LET met == IF seen = 1 THEN <<"Teams have met once">>
                              ELSE IF seen = 2 THEN <<"Teams have met twice">>
                              ELSE IF seen > 2 THEN <<MetTimes(seen)>>
                              ELSE <<>>
                       d == IF institution_id(a.val) = institution_id(n.val)
                            THEN Append(met, SameInstitution)
                            ELSE met
                   IN  Returns([n.self EXCEPT !.draw_conflicts = Some(d)], d)

\* AdjudicatorAllocation(self, from_db=True), kept in self._adjudicators.
adjudicators(self) ==
    IF self._adjudicators # Unset THEN Memoized(self, self._adjudicators[1])
    ELSE Returns([self EXCEPT !._adjudicators = Some(allocation)], allocation)

\* Mutant of ConflictsOfEach: the negative team is tested first.
RECURSIVE ConflictsOfEachNegFirst(_, _, _, _)
ConflictsOfEachNegFirst(self, adjs, i, a) ==
    IF i > Len(adjs) THEN Returns(self, a)
    ELSE LET aff == aff_team(self) IN
         IF aff.exc # NoExc THEN Raises(aff.self, aff.exc)
         ELSE LET neg == neg_team(aff.self) IN
              IF neg.exc # NoExc THEN Raises(neg.self, neg.exc)
              ELSE ConflictsOfEachNegFirst(neg.self, adjs, i + 1,
                      a \o (IF conflict_with(adjs[i], neg.val)
                            THEN <<Conflict(adjs[i], neg.val)>> ELSE <<>>)
                        \o (IF conflict_with(adjs[i], aff.val)
                            THEN <<Conflict(adjs[i], aff.val)>> ELSE <<>>))

\* The loop of adjudicator_conflicts from the i-th adjudicator on: the tuple
\* (self.aff_team, self.neg_team) is built for every adjudicator.
RECURSIVE ConflictsOfEach(_, _, _, _)
ConflictsOfEach(self, adjs, i, a) ==
    IF i > Len(adjs) THEN Returns(self, a)
    ELSE LET aff == aff_team(self) IN
         IF aff.exc # NoExc THEN Raises(aff.self, aff.exc)
         ELSE LET neg == neg_team(aff.self) IN
              IF neg.exc # NoExc THEN Raises(neg.self, neg.exc)
              ELSE ConflictsOfEach(neg.self, adjs, i + 1,
                      a \o (IF conflict_with(adjs[i], aff.val)
                            THEN <<Conflict(adjs[i], aff.val)>> ELSE <<>>)
                        \o (IF conflict_with(adjs[i], neg.val)
                            THEN <<Conflict(adjs[i], neg.val)>> ELSE <<>>))

\* cached_property
adjudicator_conflicts(self) ==
    IF self.adjudicator_conflicts # Unset
    THEN Memoized(self, self.adjudicator_conflicts[1])
    ELSE LET adjs == adjudicators(self)
             r == ConflictsOfEach(adjs.self, adjs.val, 1, <<>>)
         IN  IF r.exc # NoExc THEN r
             ELSE Returns([r.self EXCEPT !.adjudicator_conflicts = Some(r.val)], r.val)

\* self.draw_conflicts + self.adjudicator_conflicts + venue_conflicts(self);
\* venue is what venue_conflicts(self) returns to this call.
all_conflicts(self, venue) ==
    LET d == draw_conflicts(self) IN
    IF d.exc # NoExc THEN d
    ELSE LET a == adjudicator_conflicts(d.self) IN
         IF a.exc # NoExc THEN a
         ELSE [self |-> a.self, exc |-> NoExc, val |-> d.val \o a.val \o venue,
               cached |-> d.cached /\ a.cached]

----------------------------------------------------------------------------
(* class DebateTeam *)

NoPk == 0

FreshDebateTeam == [pk |-> NoPk, position |-> "-", _win |-> Unset, opposition |-> Unset]

\* DebateTeam.objects.exclude(position=self.position).get(debate=self.debate);
\* both exceptions are logged and None is returned (and memoized).
opposition(self) ==
    IF self.opposition # Unset THEN Memoized(self, self.opposition[1])
    ELSE LET got == Get({pk \in PKs : /\ debateteam[pk] # NoRow
                                       /\ debateteam[pk].position # self.position}) IN
         IF got.exc \in {DoesNotExist, MultipleObjectsReturned}
         THEN Returns([self EXCEPT !.opposition = Some(NoPk)], NoPk)
         ELSE Returns([self EXCEPT !.opposition = Some(got.row)], got.row)

\* True, False and None as DebateTeam.win returns them.
PyBool(b) == IF b THEN "True" ELSE "False"

\* self.teamscore_set.filter(ballot_submission__confirmed=True)
ConfirmedTeamScores(self) ==
    {ts \in teamscore : /\ ts.debate_team = self.pk
                        /\ ballotsubmission[ts.ballot_submission].confirmed}

\* Mutant of win: the TeamScore of any ballot, confirmed or not.
win_of_any_ballot(self) ==
    IF self._win # Unset THEN Memoized(self, self._win[1])
    ELSE LET got == Get({ts \in teamscore : ts.debate_team = self.pk}) IN
         IF got.exc = DoesNotExist THEN Returns([self EXCEPT !._win = Some(None)], None)
         ELSE IF got.exc # NoExc THEN Raises(self, got.exc)
         ELSE Returns([self EXCEPT !._win = Some(PyBool(got.row.win))], PyBool(got.row.win))

\* Mutant of win: "no confirmed result" is returned and not memoized.
win_forgets_none(self) ==
    IF self._win # Unset THEN Memoized(self, self._win[1])
    ELSE LET got == Get(ConfirmedTeamScores(self)) IN
         IF got.exc = DoesNotExist THEN Returns(self, None)
         ELSE IF got.exc # NoExc THEN Raises(self, got.exc)
         ELSE Returns([self EXCEPT !._win = Some(PyBool(got.row.win))], PyBool(got.row.win))

\* The win of the single TeamScore of a confirmed ballot, None (memoized as
\* well) for ObjectDoesNotExist; MultipleObjectsReturned is not caught.
win(self) ==
    IF self._win # Unset THEN Memoized(self, self._win[1])
    ELSE LET got == Get(ConfirmedTeamScores(self)) IN
         IF got.exc = DoesNotExist THEN Returns([self EXCEPT !._win = Some(None)], None)
         ELSE IF got.exc # NoExc THEN Raises(self, got.exc)
         ELSE Returns([self EXCEPT !._win = Some(PyBool(got.row.win))], PyBool(got.row.win))

----------------------------------------------------------------------------
(* The store and the calls *)

NoRet == [op |-> "-", arg |-> "-", exc |-> NoExc, cached |-> FALSE, val |-> None]

Ret(op, arg, r) == [op |-> op, arg |-> arg, exc |-> r.exc, cached |-> r.cached, val |-> r.val]

Init ==
    /\ debateteam = [pk \in PKs |->
                        IF pk = 1 THEN [team |-> "T1", position |-> POSITION_AFFIRMATIVE]
                        ELSE IF pk = 2 THEN [team |-> "T2", position |-> POSITION_NEGATIVE]
                        ELSE NoRow]
    /\ ballotsubmission = <<>>
    /\ teamscore = {}
    /\ seen = 0
    /\ allocation = <<>>
    /\ debate = FreshDebate
    /\ dt = FreshDebateTeam
    /\ history = Unset
    /\ drawn = {<<"T1", "T2">>}
    /\ ret = NoRet

\* DebateTeam(...).save(): a draw or re-draw process writes a row.
SaveDebateTeam(pk, row) ==
    /\ debateteam[pk] # row
    /\ debateteam' = [debateteam EXCEPT ![pk] = row]
    /\ ret' = NoRet
    /\ UNCHANGED <<ballotsubmission, teamscore, seen, allocation, debate, dt, history, drawn>>

\* DebateTeam.delete()
DeleteDebateTeam(pk) ==
    /\ debateteam[pk] # NoRow
    /\ debateteam' = [debateteam EXCEPT ![pk] = NoRow]
    /\ ret' = NoRet
    /\ UNCHANGED <<ballotsubmission, teamscore, seen, allocation, debate, dt, history, drawn>>

\* Debate.objects.get(...): a fresh instance, nothing memoized.
LoadDebate ==
    /\ debate' = FreshDebate
    /\ history' = Unset
    /\ ret' = NoRet
    /\ UNCHANGED <<debateteam, ballotsubmission, teamscore, seen, allocation, dt, drawn>>

OnDebate(op, arg, r) ==
    /\ debate' = r.self
    /\ ret' = Ret(op, arg, r)
    /\ UNCHANGED <<debateteam, ballotsubmission, teamscore, seen, allocation, dt, history, drawn>>

GetTeam == \E side \in Sides : OnDebate("get_team", side, get_team(debate, side))

GetSide == \E team \in Teams : OnDebate("get_side", team, get_side(debate, team))

Contains == \E team \in Teams : OnDebate("contains", team, contains(debate, team))

\* The rows a draw writes: a team on one of the two sides.  (A row at
\* POSITION_UNALLOCATED is to the side lookups what no row is.)
DrawnRows == [team : Teams, position : {POSITION_AFFIRMATIVE, POSITION_NEGATIVE}]

NextSides ==
    \/ \E pk \in PKs, row \in DrawnRows : SaveDebateTeam(pk, row)
    \/ \E pk \in PKs : DeleteDebateTeam(pk)
    \/ LoadDebate
    \/ GetTeam
    \/ GetSide
    \/ Contains

SpecSides == Init /\ [][NextSides]_vars

\* DebateTeam.objects.get(pk=pk): a fresh instance with the row's fields.
LoadDebateTeam(pk) ==
    /\ debateteam[pk] # NoRow
    /\ dt' = [FreshDebateTeam EXCEPT !.pk = pk, !.position = debateteam[pk].position]
    /\ ret' = NoRet
    /\ UNCHANGED <<debateteam, ballotsubmission, teamscore, seen, allocation, debate, history, drawn>>

OnDebateTeam(op, r) ==
    /\ dt.pk # NoPk
    /\ dt' = r.self
    /\ ret' = Ret(op, "-", r)
    /\ UNCHANGED <<debateteam, ballotsubmission, teamscore, seen, allocation, debate, history, drawn>>

ReadOpposition == OnDebateTeam("opposition", opposition(dt))

GetDt == \E side \in Sides : OnDebate("get_dt", side, get_dt(debate, side))

\* A ballot is entered: the next version, neither confirmed nor discarded,
\* with one TeamScore for each side's DebateTeam, the winner's with win.
SubmitBallot(winner, max) ==
    /\ Len(ballotsubmission) < max
    /\ Cardinality(DebateTeamsAt(POSITION_AFFIRMATIVE)) = 1
    /\ Cardinality(DebateTeamsAt(POSITION_NEGATIVE)) = 1
    /\ ballotsubmission' = Append(ballotsubmission, [confirmed |-> FALSE, discarded |-> FALSE])
    /\ teamscore' = teamscore \cup
            {[ballot_submission |-> Len(ballotsubmission) + 1, debate_team |-> pk,
              win |-> (debateteam[pk].position = PositionOf(winner))] :
                pk \in DebateTeamsAt(POSITION_AFFIRMATIVE) \cup DebateTeamsAt(POSITION_NEGATIVE)}
    /\ ret' = NoRet
    /\ UNCHANGED <<debateteam, seen, allocation, debate, dt, history, drawn>>

\* BallotSubmission.confirmed is set or cleared.
SetConfirmed(v, confirmed) ==
    /\ v \in Versions
    /\ ballotsubmission[v].confirmed # confirmed
    /\ ballotsubmission' = [ballotsubmission EXCEPT ![v].confirmed = confirmed]
    /\ ret' = NoRet
    /\ UNCHANGED <<debateteam, teamscore, seen, allocation, debate, dt, history, drawn>>

\* BallotSubmission.discarded is set or cleared.
SetDiscarded(v, discarded) ==
    /\ v \in Versions
    /\ ballotsubmission[v].discarded # discarded
    /\ ballotsubmission' = [ballotsubmission EXCEPT ![v].discarded = discarded]
    /\ ret' = NoRet
    /\ UNCHANGED <<debateteam, teamscore, seen, allocation, debate, dt, history, drawn>>

ReadWin == OnDebateTeam("win", win(dt))

ReadConfirmedBallot == OnDebate("confirmed_ballot", "-", confirmed_ballot(debate))

NextResult ==
    \/ \E winner \in Sides : SubmitBallot(winner, MaxResults)
    \/ \E v \in 1..MaxResults, confirmed \in BOOLEAN : SetConfirmed(v, confirmed)
    \/ \E v \in 1..MaxResults, discarded \in BOOLEAN : SetDiscarded(v, discarded)
    \/ \E pk \in PKs : LoadDebateTeam(pk)
    \/ LoadDebate
    \/ ReadWin
    \/ ReadConfirmedBallot

SpecResult == Init /\ [][NextResult]_vars

ReadIdenticalBallotsubsDict ==
    \E is_identical \in SUBSET {p \in SUBSET (1..MaxBallots) : Cardinality(p) = 2} :
        OnDebate("identical_ballotsubs_dict", is_identical,
                 identical_ballotsubs_dict(debate, is_identical))

NextGroup ==
    \/ \E winner \in Sides : SubmitBallot(winner, MaxBallots)
    \/ \E v \in 1..MaxBallots, discarded \in BOOLEAN : SetDiscarded(v, discarded)
    \/ ReadIdenticalBallotsubsDict

SpecGroup == Init /\ [][NextGroup]_vars

\* A re-draw: the two rows of the debate get the teams a and n, in one
\* transaction of the store.
Reassign(a, n) ==
    /\ a # n
    /\ debateteam' = [debateteam EXCEPT
                        ![1] = [team |-> a, position |-> POSITION_AFFIRMATIVE],
                        ![2] = [team |-> n, position |-> POSITION_NEGATIVE]]
    /\ debateteam' # debateteam
    /\ ret' = NoRet
    /\ UNCHANGED <<ballotsubmission, teamscore, seen, allocation, debate, dt, history>>

Redraw == \E a \in Teams, n \in Teams : Reassign(a, n) /\ UNCHANGED drawn

\* Results of earlier rounds are entered or edited: the teams' meeting count
\* is another.
RecordMeetings(count) ==
    /\ count # seen
    /\ seen' = count
    /\ ret' = NoRet
    /\ UNCHANGED <<debateteam, ballotsubmission, teamscore, allocation, debate, dt, history, drawn>>

\* The allocations of the tournament's adjudicators, in order.
Allocations == {<<>>} \cup {<<j>> : j \in Adjudicators}
                      \cup {s \in Adjudicators \X Adjudicators : s[1] # s[2]}

\* The adjudicator allocation of the debate is saved.
Allocate(adjs) ==
    /\ adjs # allocation
    /\ allocation' = adjs
    /\ ret' = NoRet
    /\ UNCHANGED <<debateteam, ballotsubmission, teamscore, seen, debate, dt, history, drawn>>

\* What venue_conflicts(debate) may return.
VenueConflicts == {<<>>, <<"Venue constraint of the affirmative team not met">>,
                   <<"Venue constraint of the affirmative team not met",
                     "Venue constraint of adjudicator not met">>}

\* A read that may compute draw_conflicts: `history` is bound when it does.
OnConflicts(op, arg, r) ==
    /\ debate' = r.self
    /\ history' = IF debate.draw_conflicts = Unset /\ r.self.draw_conflicts # Unset
                  THEN Some(seen) ELSE history
    /\ ret' = Ret(op, arg, r)
    /\ UNCHANGED <<debateteam, ballotsubmission, teamscore, seen, allocation, dt, drawn>>

ReadDrawConflicts == OnConflicts("draw_conflicts", "-", draw_conflicts(debate))

ReadAdjudicatorConflicts == OnDebate("adjudicator_conflicts", "-", adjudicator_conflicts(debate))

ReadAllConflicts ==
    \E venue \in VenueConflicts : OnConflicts("all_conflicts", venue, all_conflicts(debate, venue))

NextConflicts ==
    \/ Redraw
    \/ \E count \in 0..MaxHistory : RecordMeetings(count)
    \/ \E adjs \in Allocations : Allocate(adjs)
    \/ LoadDebate
    \/ ReadDrawConflicts
    \/ ReadAdjudicatorConflicts
    \/ ReadAllConflicts

SpecConflicts == Init /\ [][NextConflicts]_vars

\* The same re-draw, with the pairing it leaves in the store noted.
RedrawTracked ==
    \E a \in Teams, n \in Teams : Reassign(a, n) /\ drawn' = drawn \cup {<<a, n>>}

NextSnapshot ==
    \/ RedrawTracked
    \/ LoadDebate
    \/ GetTeam
    \/ GetSide
    \/ Contains
    \/ ReadDrawConflicts
    \/ ReadAllConflicts

SpecSnapshot == Init /\ [][NextSnapshot]_vars

\* Side allocation: the team of a row stays, its position is allocated.
TeamOfRow(pk) == IF pk = 1 THEN "T1" ELSE IF pk = 2 THEN "T2" ELSE "T3"

NextOpposition ==
    \/ \E pk \in PKs, position \in POSITION_CHOICES :
            SaveDebateTeam(pk, [team |-> TeamOfRow(pk), position |-> position])
    \/ \E pk \in PKs : DeleteDebateTeam(pk)
    \/ \E pk \in PKs : LoadDebateTeam(pk)
    \/ LoadDebate
    \/ ReadOpposition
    \/ GetDt

SpecOpposition == Init /\ [][NextOpposition]_vars

----------------------------------------------------------------------------
(* C1 *)

\* What the store holds for a side decides the outcome of a lookup.
StoreDecides(side, exc, val) ==
    LET at == DebateTeamsAt(PositionOf(side)) IN
    /\ Cardinality(at) = 1 => exc = NoExc /\ \A pk \in at : val = debateteam[pk].team
    /\ at = {} => exc = DoesNotExist
    /\ Cardinality(at) > 1 => exc = MultipleObjectsReturned

\* C1 as stated: every team_at(debate, side) returns the assigned team when the
\* side has exactly one assignment, fails with not-found when it has none and
\* with ambiguous-assignment when it has several.
C1_TeamAtFollowsStore ==
    ret.op = "get_team" => StoreDecides(ret.arg, ret.exc, ret.val)

\* C1 amended: a team_at that reads the store (the instance holds no memoized
\* team for the side) returns the single assigned team, fails with not-found
\* for none and with ambiguous-assignment for several; a team_at on an instance
\* that memoized a team for the side returns that team and does not fail.
C1_TeamAtFollowsStoreUnlessMemoized ==
    ret.op = "get_team" =>
        IF ret.cached
        THEN /\ ret.exc = NoExc
             /\ ret.val \in Teams
             /\ Some(ret.val) = (IF ret.arg = "aff" THEN debate._aff_team ELSE debate._neg_team)
        ELSE /\ StoreDecides(ret.arg, ret.exc, ret.val)
             /\ ret.exc = NoExc =>
                    Some(ret.val) = (IF ret.arg = "aff" THEN debate._aff_team ELSE debate._neg_team)
             /\ ret.exc # NoExc =>
                    Unset = (IF ret.arg = "aff" THEN debate._aff_team ELSE debate._neg_team)

\* A lookup that read the store and found two assignments on the side.
C1_Witness ==
    /\ ret.op = "get_team"
    /\ ~ret.cached
    /\ ret.exc = MultipleObjectsReturned
    /\ Cardinality(DebateTeamsAt(PositionOf(ret.arg))) = 2

----------------------------------------------------------------------------
(* C2 *)

WellFormed ==
    /\ Cardinality(DebateTeamsAt(POSITION_AFFIRMATIVE)) = 1
    /\ Cardinality(DebateTeamsAt(POSITION_NEGATIVE)) = 1

Confirmed == {v \in Versions : ballotsubmission[v].confirmed}

\* What the store holds decides the result of the loaded DebateTeam: UNKNOWN
\* without a confirmed ballot, else the win flag of the confirmed ballot's
\* TeamScore for this DebateTeam; with win set for AFFIRMATIVE that is WON on
\* the affirmative and LOST on the negative DebateTeam.
ResultFollowsStore(exc, val) ==
    /\ exc = NoExc
    /\ Confirmed = {} => val = None
    /\ \A ts \in teamscore :
            (ts.ballot_submission \in Confirmed /\ ts.debate_team = dt.pk)
                => val = (IF ts.win THEN "True" ELSE "False")
    /\ \A ts \in teamscore :
            (/\ ts.ballot_submission \in Confirmed
             /\ ts.debate_team \in DebateTeamsAt(POSITION_AFFIRMATIVE)
             /\ ts.win)
                => /\ dt.pk \in DebateTeamsAt(POSITION_AFFIRMATIVE) => val = "True"
                   /\ dt.pk \in DebateTeamsAt(POSITION_NEGATIVE) => val = "False"

\* C2 as stated: on a well-formed debate with at most one confirmed ballot,
\* resolve never raises, is UNKNOWN without a confirmed ballot and else WON or
\* LOST as the confirmed ballot's TeamScore for the side says.
C2_ResolveFollowsStore ==
    (ret.op = "win" /\ WellFormed /\ Cardinality(Confirmed) <= 1)
        => ResultFollowsStore(ret.exc, ret.val)

\* C2 amended: on a well-formed debate with at most one confirmed ballot, the
\* first read of resolve on a DebateTeam instance never raises, is UNKNOWN
\* without a confirmed ballot and else WON or LOST as the confirmed ballot's
\* TeamScore for the side says; a later read on the same instance never raises
\* and returns the value the instance memoized.
C2_ResolveFollowsStoreOnFirstRead ==
    (ret.op = "win" /\ WellFormed /\ Cardinality(Confirmed) <= 1)
        => IF ret.cached
           THEN ret.exc = NoExc /\ Some(ret.val) = dt._win
           ELSE ResultFollowsStore(ret.exc, ret.val)

\* A first read on the negative DebateTeam, the one confirmed ballot giving
\* the win to the affirmative.
C2_Witness ==
    /\ ret.op = "win"
    /\ ~ret.cached
    /\ WellFormed
    /\ Cardinality(Confirmed) = 1
    /\ dt.pk \in DebateTeamsAt(POSITION_NEGATIVE)
    /\ ret.val = "False"
    /\ \E ts \in teamscore : /\ ts.ballot_submission \in Confirmed
                              /\ ts.debate_team \in DebateTeamsAt(POSITION_AFFIRMATIVE)
                              /\ ts.win

----------------------------------------------------------------------------
(* C3 *)

\* C3: a confirmed_ballot that reads the store returns the single ballot that
\* is confirmed and not discarded, null when there is none, fails when there
\* are several, and never returns a discarded ballot.
C3_ConfirmedBallotIsNotDiscarded ==
    (ret.op = "confirmed_ballot" /\ ~ret.cached) =>
        LET live == {v \in Confirmed : ~ballotsubmission[v].discarded} IN
        /\ Cardinality(live) = 1 => ret.exc = NoExc /\ ret.val \in live
        /\ live = {} => ret.exc = NoExc /\ ret.val = NoBallot
        /\ Cardinality(live) > 1 => ret.exc = MultipleObjectsReturned
        /\ (ret.exc = NoExc /\ ret.val # NoBallot) => ~ballotsubmission[ret.val].discarded

----------------------------------------------------------------------------
(* C4 *)

Elements(l) == {l[i] : i \in 1..Len(l)}

\* C4: group_identical has one key for each ballot that is not discarded, and
\* the value of ballot b lists, ascending and once each, the versions of the
\* other ballots that are not discarded and identical to b; so the result is
\* symmetric and holds no discarded ballot.
C4_GroupIdentical ==
    ret.op = "identical_ballotsubs_dict" =>
        LET kept == {v \in Versions : ~ballotsubmission[v].discarded}
            is_identical == ret.arg
            result == ret.val
        IN  /\ ret.exc = NoExc
            /\ DOMAIN result = kept
            /\ \A b \in kept :
                    /\ Elements(result[b]) = {c \in kept \ {b} : {b, c} \in is_identical}
                    /\ \A i \in 1..(Len(result[b]) - 1) : result[b][i] < result[b][i + 1]
            /\ \A i \in kept, j \in kept :
                    j \in Elements(result[i]) <=> i \in Elements(result[j])
            /\ \A b \in kept : \A v \in Elements(result[b]) : ~ballotsubmission[v].discarded

\* A grouping with a kept ballot identical to another kept ballot and to a
\* discarded one.
C4_Witness ==
    /\ ret.op = "identical_ballotsubs_dict"
    /\ \E b \in Versions, c \in Versions, d \in Versions :
            /\ ~ballotsubmission[b].discarded
            /\ ~ballotsubmission[c].discarded
            /\ ballotsubmission[d].discarded
            /\ {b, c} \in ret.arg /\ b # c
            /\ {b, d} \in ret.arg
            /\ ret.val[b] = <<c>>
            /\ ret.val[c] = <<b>>

----------------------------------------------------------------------------
(* C7 *)

\* C7: a read of resolve that returns memoizes what it returns; once the
\* instance holds a value every later read on it returns that value, whatever
\* was confirmed, unconfirmed or entered in between, and nothing but loading a
\* fresh instance changes what the instance holds; the first read on a fresh
\* instance reflects the confirmed ballot of that moment.
C7_ResolveIsASnapshot ==
    [][/\ (ret'.op = "win" /\ ret'.exc = NoExc) => dt'._win = Some(ret'.val)
       /\ (ret'.op = "win" /\ dt._win # Unset)
            => ret'.exc = NoExc /\ Some(ret'.val) = dt._win /\ dt' = dt
       /\ (ret'.op = "win" /\ dt._win = Unset /\ Cardinality(Confirmed') <= 1)
            => /\ ret'.exc = NoExc
               /\ Confirmed' = {} => ret'.val = None
               /\ \A ts \in teamscore' :
                    (ts.ballot_submission \in Confirmed' /\ ts.debate_team = dt'.pk)
                        => ret'.val = (IF ts.win THEN "True" ELSE "False")
       /\ ballotsubmission' # ballotsubmission => dt' = dt
      ]_vars

\* A later read that returned WON from the instance although no ballot is
\* confirmed any more.
C7_Witness ==
    /\ ret.op = "win"
    /\ ret.cached
    /\ ret.val = "True"
    /\ Confirmed = {}

----------------------------------------------------------------------------
(* C10 *)

\* C10: an operation that needs exactly one record and finds several in the
\* store fails; it returns nothing in their place.
C10_SeveralRecordsRaise ==
    /\ (ret.op = "get_team" /\ ~ret.cached
            /\ Cardinality(DebateTeamsAt(PositionOf(ret.arg))) > 1) => ret.exc # NoExc
    /\ (ret.op = "get_dt" /\ ~ret.cached
            /\ Cardinality(DebateTeamsAt(PositionOf(ret.arg))) > 1) => ret.exc # NoExc
    /\ (ret.op = "opposition" /\ ~ret.cached
            /\ Cardinality({pk \in PKs : /\ debateteam[pk] # NoRow
                                          /\ debateteam[pk].position # dt.position}) > 1)
            => ret.exc # NoExc
    /\ (ret.op = "confirmed_ballot" /\ ~ret.cached /\ Cardinality(Confirmed) > 1)
            => ret.exc # NoExc
    /\ (ret.op = "win" /\ ~ret.cached /\ Cardinality(ConfirmedTeamScores(dt)) > 1)
            => ret.exc # NoExc

----------------------------------------------------------------------------
(* C5 *)

\* The history message the claim gives for a meeting count.
HistoryMessageFor(count) ==
    CASE count = 0 -> <<>>
      [] count = 1 -> <<"Teams have met once">>
      [] count = 2 -> <<"Teams have met twice">>
      [] count = 3 -> <<"Teams have met 3 times">>
      [] count = 4 -> <<"Teams have met 4 times">>
      [] count = 5 -> <<"Teams have met 5 times">>
      [] count = 6 -> <<"Teams have met 6 times">>

AdjudicatorMessages == {Conflict(adj, team) : adj \in Adjudicators, team \in Teams}

VenueMessages == UNION {Elements(venue) : venue \in VenueConflicts}

\* An entry of a report that is of no other category is a history message.
IsHistoryMessage(m) == m \notin {SameInstitution} \cup AdjudicatorMessages \cup VenueMessages

\* C5: the history messages of draw_conflicts and of the conflict report are
\* the one message of the count the history provider returned: none for 0,
\* "Teams have met once" for 1, "Teams have met twice" for 2, "Teams have met N
\* times" with the count for more.
C5_OneHistoryMessage ==
    /\ debate.draw_conflicts # Unset =>
            /\ history # Unset
            /\ SelectSeq(debate.draw_conflicts[1], IsHistoryMessage) = HistoryMessageFor(history[1])
    /\ (ret.op = "all_conflicts" /\ ret.exc = NoExc) =>
            /\ history # Unset
            /\ SelectSeq(ret.val, IsHistoryMessage) = HistoryMessageFor(history[1])

\* A report for teams that have met five times.
C5_Witness ==
    /\ ret.op = "all_conflicts"
    /\ ret.exc = NoExc
    /\ history = Some(5)
    /\ ret.val[1] = "Teams have met 5 times"

----------------------------------------------------------------------------
(* C6 *)

\* The (adjudicator, team) pairs in the order of the claim: the adjudicators
\* in allocation order, the affirmative before the negative team.
AdjudicatorTeamPairs(adjs, aff, neg) ==
    [i \in 1..(2 * Len(adjs)) |->
        <<adjs[(i + 1) \div 2], IF i % 2 = 1 THEN aff ELSE neg>>]

HasConflict(pair) == conflict_with(pair[1], pair[2])

\* C6: the report is the history entry, the same-institution entry (there iff
\* the two teams have one institution), one adjudicator conflict for each
\* conflicting (adjudicator, team) pair in allocation order and affirmative
\* first, and the venue conflicts as the venue function returned them, in this
\* order; its length is the sum of the four counts.
C6_ReportIsTheConcatenation ==
    (ret.op = "all_conflicts" /\ ret.exc = NoExc) =>
        /\ debate._aff_team # Unset /\ debate._neg_team # Unset
        /\ debate._adjudicators # Unset /\ history # Unset
        /\ LET aff == debate._aff_team[1]
               neg == debate._neg_team[1]
               met == HistoryMessageFor(history[1])
               institution == IF institution_id(aff) = institution_id(neg)
                              THEN <<SameInstitution>> ELSE <<>>
               pairs == SelectSeq(AdjudicatorTeamPairs(debate._adjudicators[1], aff, neg),
                                  HasConflict)
               adjudicator == [i \in 1..Len(pairs) |-> Conflict(pairs[i][1], pairs[i][2])]
               venue == ret.arg
           IN  /\ ret.val = met \o institution \o adjudicator \o venue
               /\ Len(ret.val) = Len(met) + Len(institution) + Len(pairs) + Len(venue)
               /\ Len(met) <= 1

\* A report with an entry of every category, an adjudicator in conflict with
\* both teams among them.
C6_Witness ==
    /\ ret.op = "all_conflicts"
    /\ ret.exc = NoExc
    /\ Len(ret.val) = 7
    /\ ret.val[1] = "Teams have met twice"
    /\ ret.val[2] = SameInstitution
    /\ ret.val[3] = "Adjudicator J2 conflicts with T2"
    /\ ret.val[4] = "Adjudicator J2 conflicts with T1"
    /\ ret.val[5] = "Adjudicator J1 conflicts with T1"
    /\ Len(ret.arg) = 2

----------------------------------------------------------------------------
(* C8 *)

\* C8: a report is the report of the data the store holds when conflicts is
\* invoked, also on an instance that computed a report before the data changed.
C8_ReportIsOfCurrentData ==
    (ret.op = "all_conflicts" /\ ret.exc = NoExc) =>
        ret.val = all_conflicts(FreshDebate, ret.arg).val

----------------------------------------------------------------------------
(* C9 *)

\* C9: the affirmative and the negative team of a report were the debate's
\* two teams at one and the same time.
C9_ReportTeamsWereDrawnTogether ==
    (ret.op \in {"draw_conflicts", "all_conflicts"} /\ ret.exc = NoExc) =>
        <<debate._aff_team[1], debate._neg_team[1]>> \in drawn

====
